---- MODULE Spec2Model ----
(***************************************************************************)
(* pyee.EventEmitter (src/pyee/__init__.py) as a state machine.            *)
(*                                                                         *)
(* The emitter is synchronous and re-entrant: emit calls listeners, and a  *)
(* listener is caller code that may itself call on, once, emit,            *)
(* remove_listener, remove_all_listeners or listeners before it returns or *)
(* raises.  The model therefore keeps the Python call stack: one frame per *)
(* running emit, _on, once-wrapper g and listener body.  An exception in   *)
(* flight unwinds the emitter's own frames (they hold no try/except) and   *)
(* may be caught or passed on by a listener body.                          *)
(*                                                                         *)
(* Fields marked "observation" record what a caller or a test double can   *)
(* see (which listener was called with what, what was handed to the        *)
(* scheduler); the emitter's steps read them only to write such fields.    *)
(***************************************************************************)
EXTENDS Integers, Sequences, FiniteSets, TLC

VARIABLES
    events,     \* self._events: defaultdict(list), event name -> list of callables;
                \* a missing key and a key holding [] are one state here
                \* (defaultdict(list) reads the one as the other and no
                \* method looks at the keys)
    iscoroutine,\* module global: "asyncio" when the import succeeded, else "None"
    schedule,   \* self._schedule
    loop,       \* self._loop
    held,       \* the event whose list object caller code holds, as listeners()
                \* returned it and while self._events still binds it; "-" if none
    stack,      \* the call stack, innermost frame last
    exc,        \* the exception propagating, or NoExc
    ret,        \* the value the frame that just returned hands to its caller
    nops,       \* number of calls caller code made so far, of emitter methods
                \* and on a list listeners() gave it
    nreg,       \* observation: number of listeners appended so far
    last,       \* observation: the emitter call that completed in the step just
                \* taken (NoLast after any other step)
    wr          \* observation: per once-wrapper, how often and by whom it ran

vars == <<events, iscoroutine, schedule, loop, held, stack, exc, ret, nops, nreg, last, wr>>

(***************************************************************************)
(* Bounds of the exploration.                                              *)
(***************************************************************************)
MaxOps == 3         \* emitter methods called in one behaviour
MaxNest == 1        \* nesting depth of the listener bodies that may call the emitter

Events == {"data", "error", "new_listener"}
Listeners == {"L1", "L2"}
Forms == {"direct", "curried"}

(***************************************************************************)
(* Python values.  Every value is a record of the same shape so that any   *)
(* two can be compared: tag says what it is, f names it, g is the identity *)
(* of a once-wrapper (0 otherwise), ev the event a once-wrapper closes     *)
(* over.                                                                   *)
(***************************************************************************)
V(tag, f, g, ev) == [tag |-> tag, f |-> f, g |-> g, ev |-> ev]
None == V("none", "None", 0, "-")
Fn(f) == V("fn", f, 0, "-")
Wrapper(f, e, id) == V("g", f, id, e)
Str(s) == V("str", s, 0, "-")
Bool(b) == V("bool", IF b THEN "True" ELSE "False", 0, "-")
Exc(name) == V("exc", name, 0, "-")
Coro(f) == V("coro", f, 0, "-")
ListRef(e) == V("list", e, 0, "-")
NoExc == V("noexc", "-", 0, "-")

PyeeException == Exc("PyeeException: Uncaught, unspecified 'error' event.")
ValueError == Exc("ValueError: list.remove(x): x not in list")
TypeError == Exc("TypeError: 'NoneType' object is not callable")
ListenerError == Exc("listener failed")

\* Positional arguments a caller passes to emit.
ArgTuples == {<<>>, <<Exc("e1"), Exc("e2")>>}

(***************************************************************************)
(* The registry.  A list holds entries [c, rid, seq]: c is the callable;    *)
(* rid and seq are observation: rid is the number of the on/once call that *)
(* registered the entry, seq counts the appends, so that a smaller seq     *)
(* means registered earlier.                                               *)
(***************************************************************************)
\* self._events[event], read.
Lookup(ev, e) == ev[e]

\* self._events[event] changed in place or assigned.
SetItem(ev, e, s) == [ev EXCEPT ![e] = s]

Callables(s) == {s[i].c : i \in 1..Len(s)}

Count(s, c) == Cardinality({i \in 1..Len(s) : s[i].c = c})

FirstIndex(s, c) == CHOOSE i \in 1..Len(s) : s[i].c = c /\ \A j \in 1..(i-1) : s[j].c # c

DropAt(s, i) == SubSeq(s, 1, i-1) \o SubSeq(s, i+1, Len(s))

\* (variant: a removal that passes over a missing item in silence)
ListRemoveNeverRaises(s, c) == FALSE

\* list.remove(x) raises ValueError when x is not in the list,
ListRemoveRaises(s, c) == c \notin Callables(s)

\* (variant: every item equal to x goes)
ListRemoveEvery(s, c) == SelectSeq(s, LAMBDA x : x.c # c)

\* and removes the first item equal to x otherwise.
ListRemove(s, c) == IF c \in Callables(s) THEN DropAt(s, FirstIndex(s, c)) ELSE s

\* (variant: list.insert(0, x))
ListInsertFirst(s, x) == <<x>> \o s

\* list.append(x).
ListAppend(s, x) == Append(s, x)

\* list(self._events[event]) at the start of emit.
ListCopy(s) == s

(***************************************************************************)
(* Once-wrapper bookkeeping (observation).  first: "pending" until the     *)
(* wrapper is appended, "none" until an emit of its event starts that      *)
(* finds it registered, then "active", then "returned" or "raised" as that *)
(* first emit ends.  cnt counts the calls of f made through the wrapper,   *)
(* late says that an emit other than the first one called it, dropped that *)
(* f returned a coroutine to the wrapper.                                  *)
(***************************************************************************)
NewWrapper(e, f) ==
    [ev |-> e, f |-> f, cnt |-> 0, first |-> "pending", late |-> FALSE, dropped |-> FALSE]

FirstFor(w, s) ==
    {g \in DOMAIN w : w[g].first = "none" /\ \E i \in 1..Len(s) : s[i].c.g = g}

StartEmit(w, s) ==
    [g \in DOMAIN w |-> IF g \in FirstFor(w, s) THEN [w[g] EXCEPT !.first = "active"] ELSE w[g]]

EndEmit(w, fr, how) ==
    [g \in DOMAIN w |-> IF g \in fr.firstFor THEN [w[g] EXCEPT !.first = how] ELSE w[g]]

Fired(w, fr, c) ==
    IF c.tag = "g"
    THEN [w EXCEPT ![c.g] = [@ EXCEPT !.cnt = @ + 1,
                                      !.late = @ \/ c.g \notin fr.firstFor]]
    ELSE w

(***************************************************************************)
(* Frames.                                                                 *)
(***************************************************************************)
Frame0 ==
    [k |-> "none", event |-> "-", args |-> <<>>, c |-> None, rid |-> 0,
     events_copy |-> <<>>, i |-> 0, handled |-> FALSE, pc |-> "-",
     api |-> "-", form |-> "-", orig |-> None,
     start |-> <<>>, invoked |-> <<>>, results |-> <<>>, sched |-> <<>>,
     firstFor |-> {}]

\* emit(event, *args) up to the for loop: handled = False, events_copy = list(...).
EmitFrame(ev, e, args, w) ==
    [Frame0 EXCEPT !.k = "emit", !.event = e, !.args = args,
                   !.events_copy = ListCopy(Lookup(ev, e)), !.i = 1,
                   !.handled = FALSE, !.pc = "loop",
                   !.start = Lookup(ev, e),
                   !.firstFor = FirstFor(w, Lookup(ev, e))]

OnFrame(e, c, rid, api, form, orig) ==
    [Frame0 EXCEPT !.k = "on", !.event = e, !.c = c, !.rid = rid, !.pc = "emit",
                   !.api = api, !.form = form, !.orig = orig]

GFrame(g, args) ==
    [Frame0 EXCEPT !.k = "g", !.event = g.ev, !.c = g, !.args = args, !.pc = "f"]

UserFrame(f, args) ==
    [Frame0 EXCEPT !.k = "user", !.c = Fn(f), !.args = args]

\* The running frame; Frame0 stands for the program when no frame is left.
Top == IF stack = <<>> THEN Frame0 ELSE stack[Len(stack)]
Pop == SubSeq(stack, 1, Len(stack) - 1)
Push(fs) == stack \o fs
ReplaceTop(fr) == [stack EXCEPT ![Len(stack)] = fr]

NoLast ==
    [op |-> "none", event |-> "-", c |-> None, args |-> <<>>, status |-> "-",
     value |-> None, start |-> <<>>, invoked |-> <<>>, results |-> <<>>,
     sched |-> <<>>, form |-> "-", pre |-> [e \in Events |-> <<>>]]

\* status: "returned"; "raised" by a raise statement of the method itself;
\* "propagated" from a listener the method called; "unregistering" when the
\* exception is that of a once-wrapper's own remove_listener call; "failed"
\* in calling the scheduler.  pre is the registry before the step that completed the call.
Done(op, e, c, status, value) ==
    [NoLast EXCEPT !.op = op, !.event = e, !.c = c, !.status = status,
                   !.value = value, !.pre = events]

EmitDone(fr, status, value) ==
    [NoLast EXCEPT !.op = "emit", !.event = fr.event, !.args = fr.args,
                   !.status = status, !.value = value, !.start = fr.start,
                   !.invoked = fr.invoked, !.results = fr.results, !.sched = fr.sched,
                   !.pre = events]

OnDone(fr, status, value) ==
    [NoLast EXCEPT !.op = fr.api, !.event = fr.event, !.c = fr.c,
                   !.status = status, !.value = value, !.form = fr.form,
                   !.pre = events]

NestDepth == Cardinality({p \in 1..Len(stack) : stack[p].k = "user"})

\* Caller code is running: the program using the emitter (empty stack) or a
\* listener body.
CallerRuns == exc = NoExc /\ Top.k \in {"none", "user"}
CanCall == CallerRuns /\ nops < MaxOps /\ NestDepth <= MaxNest

\* An exception leaves the frame on top: it reaches the frame below, or the
\* program when there is none.
Escapes(newstack, x) == IF newstack = <<>> THEN NoExc ELSE x

(***************************************************************************)
(* __init__                                                                *)
(***************************************************************************)
Init ==
    /\ events = [e \in Events |-> <<>>]
    /\ iscoroutine \in {"asyncio", "None"}
    /\ schedule \in {"ensure_future", "None"}
    /\ iscoroutine = "None" => schedule = "None"
    /\ loop \in {"None", "loop1"}
    /\ schedule = "None" => loop = "None"
    /\ held = "-"
    /\ stack = <<>>
    /\ exc = NoExc
    /\ ret = None
    /\ nops = 0
    /\ nreg = 0
    /\ last = NoLast
    /\ wr = <<>>


(***************************************************************************)
(* on(event, f) and on(event)(f): both run _on(f); the frame keeps the     *)
(* form for the return.  The step is _on up to the call of the first       *)
(* 'new_listener' listener: emit('new_listener', event, f) has taken its   *)
(* snapshot.  The append follows in OnAppend.                              *)
(***************************************************************************)
\* (variant: the listener is appended before 'new_listener' is emitted)
OnCallRegistryAppended(ev, e, x) == SetItem(ev, e, ListAppend(Lookup(ev, e), x))

\* The registry as _on leaves it before it emits 'new_listener': untouched.
OnCallRegistry(ev, e, x) == ev

On(e, f, form) ==
    /\ CanCall
    /\ events' = OnCallRegistry(events, e, [c |-> Fn(f), rid |-> nops + 1, seq |-> nreg + 1])
    /\ stack' = Push(<<OnFrame(e, Fn(f), nops + 1, "on", form, Fn(f)),
                       EmitFrame(events, "new_listener", <<Str(e), Fn(f)>>, wr)>>)
    /\ wr' = StartEmit(wr, Lookup(events, "new_listener"))
    /\ nops' = nops + 1
    /\ ret' = None
    /\ last' = NoLast
    /\ UNCHANGED <<iscoroutine, schedule, loop, held, exc, nreg>>

(***************************************************************************)
(* once(event, f) and once(event)(f): _wrapper(f) builds g = _once(f) and  *)
(* calls self.on(event, g).                                                *)
(***************************************************************************)
Once(e, f, form) ==
    /\ CanCall
    /\ LET g == Wrapper(f, e, nops + 1) IN
        /\ events' = OnCallRegistry(events, e, [c |-> g, rid |-> nops + 1, seq |-> nreg + 1])
        /\ stack' = Push(<<OnFrame(e, g, nops + 1, "once", form, Fn(f)),
                           EmitFrame(events, "new_listener", <<Str(e), g>>, wr)>>)
        /\ wr' = StartEmit(wr, Lookup(events, "new_listener")) @@ ((nops + 1) :> NewWrapper(e, f))
    /\ nops' = nops + 1
    /\ ret' = None
    /\ last' = NoLast
    /\ UNCHANGED <<iscoroutine, schedule, loop, held, exc, nreg>>

\* self._events[event].append(f); return f  (once: _wrapper returns f, and
\* once itself returns None in the direct form).
\* (variant: nothing is returned)
OnReturnsNothing(fr) == None

OnReturnValue(fr) ==
    IF fr.api = "on" THEN fr.c
    ELSE IF fr.form = "curried" THEN fr.orig ELSE None

OnAppend ==
    /\ exc = NoExc
    /\ stack # <<>>
    /\ Top.k = "on"
    /\ events' = SetItem(events, Top.event,
                         ListAppend(Lookup(events, Top.event),
                                    [c |-> Top.c, rid |-> Top.rid, seq |-> nreg + 1]))
    /\ nreg' = nreg + 1
    /\ stack' = Pop
    /\ ret' = OnReturnValue(Top)
    /\ last' = OnDone(Top, "returned", OnReturnValue(Top))
    /\ wr' = IF Top.api = "once"
             THEN [wr EXCEPT ![Top.rid] = [@ EXCEPT !.first = "none"]]
             ELSE wr
    /\ UNCHANGED <<iscoroutine, schedule, loop, held, exc, nops>>

(***************************************************************************)
(* emit(event, *args)                                                      *)
(***************************************************************************)
Emit(e, args) ==
    /\ CanCall
    /\ stack' = Push(<<EmitFrame(events, e, args, wr)>>)
    /\ wr' = StartEmit(wr, Lookup(events, e))
    /\ nops' = nops + 1
    /\ ret' = None
    /\ last' = NoLast
    /\ UNCHANGED <<events, iscoroutine, schedule, loop, held, exc, nreg>>

\* (variant: the loop walks self._events[event] itself)
IteratedLive(fr) == Lookup(events, fr.event)

\* The list the for loop walks.
Iterated(fr) == fr.events_copy

\* (variant: f(*args[:1]))
PassedArgsFirstOnly(fr) == IF fr.args = <<>> THEN <<>> ELSE <<fr.args[1]>>

\* f(*args, **kwargs)
PassedArgs(fr) == fr.args

\* g(*args, **kwargs) calls f(*args, **kwargs) first.
Callee(c, args) ==
    IF c.tag = "g" THEN <<GFrame(c, args), UserFrame(c.f, args)>>
    ELSE <<UserFrame(c.f, args)>>

EmitInvoke ==
    /\ exc = NoExc
    /\ stack # <<>>
    /\ Top.k = "emit"
    /\ Top.pc = "loop"
    /\ Top.i <= Len(Iterated(Top))
    /\ LET x == Iterated(Top)[Top.i]
           fr == [Top EXCEPT !.pc = "called",
                             !.invoked = Append(@, [c |-> x.c, rid |-> x.rid, seq |-> x.seq,
                                                    args |-> PassedArgs(Top)])]
       IN  /\ stack' = Pop \o <<fr>> \o Callee(x.c, PassedArgs(Top))
           /\ wr' = Fired(wr, Top, x.c)
    /\ ret' = None
    /\ last' = NoLast
    /\ UNCHANGED <<events, iscoroutine, schedule, loop, held, exc, nops, nreg>>

\* if iscoroutine and iscoroutine(result): self._schedule(result, loop=self._loop)
\* handled = True
\* (variant: every result is taken for a coroutine)
IsCoroutineAny(v) == iscoroutine # "None"

IsCoroutine(v) == iscoroutine # "None" /\ v.tag = "coro"

EmitResume ==
    /\ exc = NoExc
    /\ stack # <<>>
    /\ Top.k = "emit"
    /\ Top.pc = "called"
    /\ LET fr == [Top EXCEPT !.results = Append(@, ret)] IN
        IF IsCoroutine(ret) /\ schedule = "None"
        THEN /\ stack' = Pop
             /\ exc' = Escapes(Pop, TypeError)
             /\ last' = EmitDone(fr, "failed", TypeError)
             /\ wr' = EndEmit(wr, fr, "raised")
        ELSE /\ stack' = ReplaceTop(
                    [fr EXCEPT !.handled = TRUE, !.i = @ + 1, !.pc = "loop",
                               !.sched = IF IsCoroutine(ret)
                                         THEN Append(@, [v |-> ret, loop |-> loop, at |-> fr.i])
                                         ELSE @])
             /\ last' = NoLast
             /\ UNCHANGED <<exc, wr>>
    /\ ret' = None
    /\ UNCHANGED <<events, iscoroutine, schedule, loop, held, nops, nreg>>

\* (variant: the event name is not looked at)
UnhandledAnyEvent(fr) == ~fr.handled

\* if not handled and event == 'error': raise args[0] or PyeeException
UnhandledError(fr) == ~fr.handled /\ fr.event = "error"

\* (variant: the argument is not looked at)
RaisedGeneric(fr) == PyeeException

Raised(fr) == IF Len(fr.args) > 0 THEN fr.args[1] ELSE PyeeException

EmitFinish ==
    /\ exc = NoExc
    /\ stack # <<>>
    /\ Top.k = "emit"
    /\ Top.pc = "loop"
    /\ Top.i > Len(Iterated(Top))
    /\ stack' = Pop
    /\ IF UnhandledError(Top)
       THEN /\ exc' = Escapes(Pop, Raised(Top))
            /\ ret' = None
            /\ last' = EmitDone(Top, "raised", Raised(Top))
            /\ wr' = EndEmit(wr, Top, "raised")
       ELSE /\ exc' = NoExc
            /\ ret' = Bool(Top.handled)
            /\ last' = EmitDone(Top, "returned", Bool(Top.handled))
            /\ wr' = EndEmit(wr, Top, "returned")
    /\ UNCHANGED <<events, iscoroutine, schedule, loop, held, nops, nreg>>

(***************************************************************************)
(* g, the wrapper of once: after f returns, self.remove_listener(event, g) *)
(***************************************************************************)
\* What g returns: it has no return statement, the result of f is dropped.
GReturnValue(r) == None

GRemove ==
    /\ exc = NoExc
    /\ stack # <<>>
    /\ Top.k = "g"
    /\ stack' = Pop
    /\ ret' = GReturnValue(ret)
    /\ wr' = [wr EXCEPT ![Top.c.g] = [@ EXCEPT !.dropped = @ \/ ret.tag = "coro"]]
    /\ IF ~ListRemoveRaises(Lookup(events, Top.event), Top.c)
       THEN /\ events' = SetItem(events, Top.event,
                                 ListRemove(Lookup(events, Top.event), Top.c))
            /\ exc' = NoExc
            /\ last' = Done("remove_listener", Top.event, Top.c, "returned", None)
       ELSE /\ events' = events
            /\ exc' = Escapes(Pop, ValueError)
            /\ last' = Done("remove_listener", Top.event, Top.c, "raised", ValueError)
    /\ UNCHANGED <<iscoroutine, schedule, loop, held, nops, nreg>>

(***************************************************************************)
(* remove_listener(event, f): self._events[event].remove(f)                *)
(***************************************************************************)
\* What a caller can pass: its own functions, and wrappers it read from
\* listeners() or was handed by 'new_listener'.
Removable ==
    {Fn(f) : f \in Listeners}
      \cup UNION {{c \in Callables(events[e]) : c.tag = "g"} : e \in Events}

RemoveListener(e, c) ==
    /\ CanCall
    /\ nops' = nops + 1
    /\ ret' = None
    /\ IF ~ListRemoveRaises(Lookup(events, e), c)
       THEN /\ events' = SetItem(events, e, ListRemove(Lookup(events, e), c))
            /\ exc' = NoExc
            /\ last' = Done("remove_listener", e, c, "returned", None)
       ELSE /\ events' = events
            /\ exc' = Escapes(stack, ValueError)
            /\ last' = Done("remove_listener", e, c, "raised", ValueError)
    /\ UNCHANGED <<iscoroutine, schedule, loop, held, stack, nreg, wr>>

(***************************************************************************)
(* remove_all_listeners(event=None)                                        *)
(***************************************************************************)
\* (variant: the whole registry is reset)
ClearOneResets(ev, e) == [x \in Events |-> <<>>]

\* self._events[event] = []
ClearOne(ev, e) == SetItem(ev, e, <<>>)

\* self._events = defaultdict(list)
ClearAll(ev) == [e \in Events |-> <<>>]

RemoveAllListeners(e) ==
    /\ CanCall
    /\ nops' = nops + 1
    /\ ret' = None
    /\ events' = ClearOne(events, e)
    /\ held' = IF held = e THEN "-" ELSE held
    /\ last' = Done("remove_all_listeners", e, None, "returned", None)
    /\ UNCHANGED <<iscoroutine, schedule, loop, stack, exc, nreg, wr>>

RemoveAllListenersNone ==
    /\ CanCall
    /\ nops' = nops + 1
    /\ ret' = None
    /\ events' = ClearAll(events)
    /\ held' = "-"
    /\ last' = Done("remove_all_listeners", "None", None, "returned", None)
    /\ UNCHANGED <<iscoroutine, schedule, loop, stack, exc, nreg, wr>>

(***************************************************************************)
(* listeners(event): return self._events[event]                            *)
(***************************************************************************)
ListenersOf(e) ==
    /\ CanCall
    /\ nops' = nops + 1
    /\ ret' = ListRef(e)
    /\ events' = events
    /\ held' = e
    /\ last' = Done("listeners", e, None, "returned", ListRef(e))
    /\ UNCHANGED <<iscoroutine, schedule, loop, stack, exc, nreg, wr>>

(***************************************************************************)
(* What listeners() returned is the list object of the registry itself, so *)
(* caller code that kept it can call list.append and list.remove on it.    *)
(* remove_all_listeners binds a new list (or a new dict), after which the  *)
(* object the caller holds is no longer the registry's.  An entry that     *)
(* came in this way carries rid 0: no on or once call registered it.       *)
(***************************************************************************)
HeldAppend(f) ==
    /\ CanCall
    /\ held # "-"
    /\ nops' = nops + 1
    /\ nreg' = nreg + 1
    /\ ret' = None
    /\ events' = SetItem(events, held,
                         ListAppend(Lookup(events, held),
                                    [c |-> Fn(f), rid |-> 0, seq |-> nreg + 1]))
    /\ last' = Done("list.append", held, Fn(f), "returned", None)
    /\ UNCHANGED <<iscoroutine, schedule, loop, held, stack, exc, wr>>

HeldRemove(c) ==
    /\ CanCall
    /\ held # "-"
    /\ ~ListRemoveRaises(Lookup(events, held), c)
    /\ nops' = nops + 1
    /\ ret' = None
    /\ events' = SetItem(events, held, ListRemove(Lookup(events, held), c))
    /\ last' = Done("list.remove", held, c, "returned", None)
    /\ UNCHANGED <<iscoroutine, schedule, loop, held, stack, exc, nreg, wr>>

(***************************************************************************)
(* Listener bodies: caller code.  A body may call the emitter (the actions *)
(* above), return a plain value or a coroutine, or raise; when a call it   *)
(* made raised, it may catch the exception or let it pass.                 *)
(***************************************************************************)
UserReturn(coro) ==
    /\ CallerRuns
    /\ stack # <<>>
    /\ stack' = Pop
    /\ ret' = IF coro THEN Coro(Top.c.f) ELSE None
    /\ last' = NoLast
    /\ UNCHANGED <<events, iscoroutine, schedule, loop, held, exc, nops, nreg, wr>>

UserRaise ==
    /\ CallerRuns
    /\ stack # <<>>
    /\ stack' = Pop
    /\ exc' = ListenerError
    /\ ret' = None
    /\ last' = NoLast
    /\ UNCHANGED <<events, iscoroutine, schedule, loop, held, nops, nreg, wr>>

UserCatch ==
    /\ exc # NoExc
    /\ stack # <<>>
    /\ Top.k = "user"
    /\ exc' = NoExc
    /\ last' = NoLast
    /\ UNCHANGED <<events, iscoroutine, schedule, loop, held, stack, ret, nops, nreg, wr>>

UserPropagate ==
    /\ exc # NoExc
    /\ stack # <<>>
    /\ Top.k = "user"
    /\ stack' = Pop
    /\ last' = NoLast
    /\ UNCHANGED <<events, iscoroutine, schedule, loop, held, exc, ret, nops, nreg, wr>>

\* emit, _on and g hold no try/except: an exception leaves them as it came
\* (variant: emit wraps it),
PropagatedWrapped(x) == PyeeException

Propagated(x) == x

\* (variant: g removes itself in a finally clause)
GOnFailureRemoves(ev, fr) == SetItem(ev, fr.event, ListRemove(Lookup(ev, fr.event), fr.c))

\* and g, left by the exception of f, never reaches its remove_listener call.
GOnFailure(ev, fr) == ev

\* The exception in flight is the ValueError of a wrapper's own
\* remove_listener call: the step before raised it and left emit on top.
SelfRemovalFailed == last.op = "remove_listener" /\ last.status = "raised"

Unwind ==
    /\ exc # NoExc
    /\ stack # <<>>
    /\ Top.k \in {"emit", "on", "g"}
    /\ stack' = Pop
    /\ exc' = Escapes(Pop, Propagated(exc))
    /\ events' = IF Top.k = "g" THEN GOnFailure(events, Top) ELSE events
    /\ last' = CASE Top.k = "emit" ->
                        EmitDone(Top, IF SelfRemovalFailed THEN "unregistering" ELSE "propagated",
                                 Propagated(exc))
                 [] Top.k = "on" -> OnDone(Top, "propagated", Propagated(exc))
                 [] OTHER -> NoLast
    /\ wr' = IF Top.k = "emit" THEN EndEmit(wr, Top, "raised") ELSE wr
    /\ UNCHANGED <<iscoroutine, schedule, loop, held, ret, nops, nreg>>

Next ==
    \/ \E e \in Events, f \in Listeners, form \in Forms : On(e, f, form)
    \/ \E e \in Events, f \in Listeners, form \in Forms : Once(e, f, form)
    \/ OnAppend
    \/ \E e \in Events, args \in ArgTuples : Emit(e, args)
    \/ EmitInvoke
    \/ EmitResume
    \/ EmitFinish
    \/ GRemove
    \/ \E e \in Events, c \in Removable : RemoveListener(e, c)
    \/ \E e \in Events : RemoveAllListeners(e)
    \/ RemoveAllListenersNone
    \/ \E e \in Events : ListenersOf(e)
    \/ \E f \in Listeners : HeldAppend(f)
    \/ \E c \in Removable : HeldRemove(c)
    \/ \E coro \in BOOLEAN : UserReturn(coro)
    \/ UserRaise
    \/ UserCatch
    \/ UserPropagate
    \/ Unwind

Spec == Init /\ [][Next]_vars

(***************************************************************************)
(* Properties.  An emit that is running is a frame of the stack; an emit   *)
(* that has just ended is the record last.  A statement about what emit    *)
(* returns speaks of the emits that return: one that a failure leaves      *)
(* returns nothing.                                                        *)
(***************************************************************************)
EmitFrames == {p \in 1..Len(stack) : stack[p].k = "emit"}

EmitReturned == last.op = "emit" /\ last.status = "returned"

PlainIn(s) == {c \in Callables(s) : c.tag = "fn"}

\* The positions of log at which callable c was called.
CallsOf(log, c) == {j \in 1..Len(log) : log[j].c = c}

\* C1: a listener L that on(E, L) registered and that stands exactly once in
\* E's list when emit(E, args) starts is called by that emit at most once at
\* any moment, each call passes exactly args, and when the emit returns it
\* has called L exactly once and returns True.
C1_OnThenEmit ==
    /\ \A p \in EmitFrames : \A c \in PlainIn(stack[p].start) :
          Count(stack[p].start, c) = 1 =>
             /\ Cardinality(CallsOf(stack[p].invoked, c)) <= 1
             /\ \A j \in CallsOf(stack[p].invoked, c) : stack[p].invoked[j].args = stack[p].args
    /\ EmitReturned => \A c \in PlainIn(last.start) :
          Count(last.start, c) = 1 =>
             /\ Cardinality(CallsOf(last.invoked, c)) = 1
             /\ \A j \in CallsOf(last.invoked, c) : last.invoked[j].args = last.args
             /\ last.value = Bool(TRUE)

C1_Witness ==
    /\ EmitReturned
    /\ last.args # <<>>
    /\ \E c \in PlainIn(last.start) : Count(last.start, c) = 1 /\ CallsOf(last.invoked, c) # {}

\* C2: every list of the registry stands in registration order, one emit
\* calls its listeners in that order, and a listener is called only after
\* the one before it has come back.
InOrder(s) == \A i, j \in 1..Len(s) : i < j => s[i].seq < s[j].seq

C2_RegistrationOrder ==
    /\ \A e \in Events : InOrder(events[e])
    /\ \A p \in EmitFrames :
          /\ InOrder(stack[p].invoked)
          /\ Len(stack[p].results) = Len(stack[p].invoked) - (IF stack[p].pc = "called" THEN 1 ELSE 0)
          /\ stack[p].pc = "loop" => p = Len(stack)
    /\ last.op = "emit" => InOrder(last.invoked)

C2_Witness ==
    /\ EmitReturned
    /\ Len(last.invoked) >= 2
    /\ last.invoked[1].c # last.invoked[2].c

\* C3: what one emit(E) calls is a prefix of E's list as it stood when the
\* emit started, entry for entry, and the whole of it once the emit returns,
\* whatever the listeners did to the registry meanwhile; an emit that has
\* called nothing yet works on the registry as it stands now.
PrefixOf(log, s) ==
    /\ Len(log) <= Len(s)
    /\ \A j \in 1..Len(log) : log[j].c = s[j].c /\ log[j].rid = s[j].rid

C4_OnceFirstEmitOnly ==
    \A g \in DOMAIN wr :
        /\ ~wr[g].late
        /\ wr[g].first = "returned" =>
              /\ wr[g].cnt >= 1
              /\ Wrapper(wr[g].f, wr[g].ev, g) \notin Callables(events[wr[g].ev])

\* C5: emit('error', *args) that finds no listener raises, PyeeException
\* without arguments and args[0] with some, calls nothing and leaves the
\* registry as it was; one that finds a listener never raises by itself and
\* returns True after calling all of them.
C5_State ==
    (last.op = "emit" /\ last.event = "error") =>
        IF last.start = <<>>
        THEN /\ last.status = "raised"
             /\ last.value = (IF last.args = <<>> THEN PyeeException ELSE last.args[1])
             /\ last.invoked = <<>>
             /\ events = last.pre
        ELSE /\ last.status # "raised"
             /\ Len(last.invoked) >= 1
             /\ last.status = "returned" =>
                   last.value = Bool(TRUE) /\ Len(last.invoked) = Len(last.start)

C5_Step == (\E a \in ArgTuples : Emit("error", a)) => events' = events

C5_ErrorFallback == []C5_State /\ [][C5_Step]_vars

C5_Witness ==
    /\ last.op = "emit" /\ last.event = "error" /\ last.start = <<>>
    /\ last.args # <<>> /\ last.status = "raised"
    /\ \E e \in Events : events[e] # <<>>

\* C6: for an event other than 'error', emit returns True exactly when the
\* event's list was not empty as the emit started, and with an empty list
\* it does return, False, having called nothing.
C6_EmitResult ==
    (last.op = "emit" /\ last.event # "error") =>
        /\ last.start = <<>> =>
              last.status = "returned" /\ last.value = Bool(FALSE) /\ last.invoked = <<>>
        /\ last.status = "returned" => last.value = Bool(last.start # <<>>)

\* False for an event whose only listener, a once-wrapper, had removed itself.
C6_Witness ==
    /\ EmitReturned /\ last.event # "error" /\ last.value = Bool(FALSE)
    /\ \E g \in DOMAIN wr : wr[g].ev = last.event /\ wr[g].cnt >= 1

\* C7: while _on is between its call and its append, the entry it registers
\* stands in no list and in no emit's snapshot; the emit right above it is
\* emit('new_listener', event, f), working on the 'new_listener' list as _on
\* found it; and _on comes to its append only after that emit has returned,
\* having called all of that list.
OnFrames == {p \in 1..Len(stack) : stack[p].k = "on"}

C7_NewListenerFirst ==
    \A p \in OnFrames :
        /\ \A e \in Events : \A i \in 1..Len(events[e]) : events[e][i].rid # stack[p].rid
        /\ \A q \in EmitFrames : \A i \in 1..Len(Iterated(stack[q])) :
              Iterated(stack[q])[i].rid # stack[p].rid
        /\ p < Len(stack) =>
              /\ stack[p+1].k = "emit"
              /\ stack[p+1].event = "new_listener"
              /\ stack[p+1].args = <<Str(stack[p].event), stack[p].c>>
              /\ \A j \in 1..Len(stack[p+1].invoked) :
                    stack[p+1].invoked[j].args = <<Str(stack[p].event), stack[p].c>>
              /\ (p + 1 = Len(stack) /\ stack[p+1].pc = "loop" /\ stack[p+1].invoked = <<>>
                     /\ exc = NoExc)
                    => Iterated(stack[p+1]) = Lookup(events, "new_listener")
        /\ (p = Len(stack) /\ exc = NoExc) =>
              /\ last.op = "emit" /\ last.event = "new_listener" /\ last.status = "returned"
              /\ last.args = <<Str(stack[p].event), stack[p].c>>
              /\ Len(last.invoked) = Len(last.start)

\* A 'new_listener' listener, called for on(E, L), has called emit(E).
C7_Witness ==
    \E p \in OnFrames :
        /\ Len(stack) >= p + 3
        /\ stack[p+1].invoked # <<>>
        /\ stack[p+2].k = "user"
        /\ stack[p+3].k = "emit"
        /\ stack[p+3].event = stack[p].event

C9_RemoveAbsent ==
    last.op = "remove_listener" =>
        /\ last.status \in {"returned", "raised"}
        /\ last.status = "raised" <=> last.c \notin Callables(last.pre[last.event])
        /\ last.status = "raised" =>
              /\ last.value = ValueError
              /\ events = last.pre
              /\ exc = (IF stack = <<>> THEN NoExc ELSE ValueError)

\* L is registered, for another event only.
C9_Witness ==
    /\ last.op = "remove_listener" /\ last.status = "raised"
    /\ \E e \in Events : last.c \in Callables(events[e])

\* C10: remove_all_listeners(E) empties E's list and leaves the others;
\* remove_all_listeners() empties every list.
C10_RemoveAll ==
    last.op = "remove_all_listeners" =>
        /\ last.status = "returned"
        /\ IF last.event = "None"
           THEN \A x \in Events : events[x] = <<>>
           ELSE /\ events[last.event] = <<>>
                /\ \A x \in Events \ {last.event} : events[x] = last.pre[x]

C10_Witness ==
    /\ last.op = "remove_all_listeners" /\ last.event # "None"
    /\ last.pre[last.event] # <<>>
    /\ \E x \in Events : events[x] # <<>>

\* C11: with a scheduler injected, the scheduler calls of one emit are, in
\* order, one per listener result that is a coroutine, each with that
\* result and self._loop and made as the result came back, before the next
\* listener is called; a result that is no coroutine makes no call; and the
\* call never stops the emit, which goes on to call all of its snapshot
\* and returns.
SchedOK(fr) ==
    /\ \A k \in 1..Len(fr.sched) :
          /\ fr.sched[k].at \in 1..Len(fr.results)
          /\ fr.sched[k].v = fr.results[fr.sched[k].at]
          /\ fr.sched[k].v.tag = "coro"
          /\ fr.sched[k].loop = loop
          /\ \A m \in 1..(k-1) : fr.sched[m].at < fr.sched[k].at
    /\ \A j \in 1..Len(fr.results) :
          (fr.results[j].tag = "coro" /\ schedule # "None")
             <=> \E k \in 1..Len(fr.sched) : fr.sched[k].at = j

C11_ScheduleOnce ==
    /\ \A p \in EmitFrames :
          /\ SchedOK(stack[p])
          /\ Len(stack[p].results) >= Len(stack[p].invoked) - 1
    /\ last.op = "emit" => SchedOK(last)
    /\ (last.op = "emit" /\ schedule # "None") => last.status # "failed"
    /\ EmitReturned => Len(last.results) = Len(last.start)

\* The first of two listeners returned a coroutine, the second did not, and
\* the emit returned.
C11_Witness ==
    /\ EmitReturned
    /\ loop = "loop1"
    /\ Len(last.start) = 2
    /\ Len(last.sched) = 1
    /\ last.sched[1].at = 1

\* C12: an on call that returns, in either form, has put one entry, the
\* listener itself, at the end of its event's list, whether or not the
\* listener stood in it already; the entries that were there keep their
\* places, the other events their lists; the call returns the listener; and
\* an emit that returns has called each listener once per entry.
C12_OnAppends ==
    /\ (last.op = "on" /\ last.status = "returned") =>
          LET old == last.pre[last.event]
              new == events[last.event]
          IN  /\ last.form \in Forms
              /\ Len(new) = Len(old) + 1
              /\ SubSeq(new, 1, Len(old)) = old
              /\ new[Len(new)].c = last.c
              /\ last.c.tag = "fn"
              /\ Count(new, last.c) = Count(old, last.c) + 1
              /\ \A x \in Events \ {last.event} : events[x] = last.pre[x]
              /\ last.value = last.c
              /\ ret = last.c
    /\ EmitReturned =>
          \A c \in PlainIn(last.start) :
              Cardinality(CallsOf(last.invoked, c)) = Count(last.start, c)

\* The curried form registered a listener that stood in the list already,
\* behind another one.
C12_Witness ==
    /\ last.op = "on" /\ last.status = "returned" /\ last.form = "curried"
    /\ Len(last.pre[last.event]) = 2
    /\ last.pre[last.event][1].c = last.c
    /\ last.pre[last.event][2].c # last.c

\* C13: an exception that reaches emit from the listener it is calling
\* leaves emit in the same step and unchanged, on its way to emit's caller;
\* the emit has then called a prefix of its snapshot, the failing listener
\* last and nothing behind it, each of the earlier ones once and to its
\* end, and it hands no value back.
C13_State ==
    (last.op = "emit" /\ last.status = "propagated") =>
        /\ last.value # NoExc
        /\ exc = Escapes(stack, last.value)
        /\ ret = None
        /\ Len(last.invoked) >= 1
        /\ PrefixOf(last.invoked, last.start)
        /\ Len(last.results) = Len(last.invoked) - 1

C13_Step ==
    (exc # NoExc /\ Top.k = "emit") =>
        /\ stack' = Pop
        /\ exc' = Escapes(Pop, exc)
        /\ events' = events
        /\ last'.op = "emit"
        /\ last'.status = (IF SelfRemovalFailed THEN "unregistering" ELSE "propagated")
        /\ last'.value = exc
        /\ last'.invoked = Top.invoked

C13_ListenerFailure == []C13_State /\ [][C13_Step]_vars

\* The first of two listeners failed; the second was not called.
C13_Witness ==
    /\ last.op = "emit" /\ last.status = "propagated"
    /\ last.value = ListenerError
    /\ Len(last.start) = 2
    /\ Len(last.invoked) = 1

\* C14: a once call that returns, in either form, returns the listener it
\* was given and has put one entry, the wrapper of that listener, at the
\* end of its event's list and changed nothing else.
C14_OnceReturnsListener ==
    (last.op = "once" /\ last.status = "returned") =>
        LET old == last.pre[last.event]
            new == events[last.event]
        IN  /\ last.value = Fn(last.c.f)
            /\ new = Append(old, new[Len(new)])
            /\ new[Len(new)].c = last.c
            /\ last.c.tag = "g"
            /\ \A x \in Events \ {last.event} : events[x] = last.pre[x]

\* C15: every listener an emit calls stands in the registry because an on
\* or once call put it there, whatever caller code did to a list that
\* listeners() returned; and listeners() returns without failing and
\* without changing the registry, for an event without listeners too.
C15_SoleMutator ==
    /\ \A p \in EmitFrames :
          \A j \in 1..Len(stack[p].invoked) : stack[p].invoked[j].rid # 0
    /\ last.op = "emit" => \A j \in 1..Len(last.invoked) : last.invoked[j].rid # 0
    /\ last.op = "listeners" => last.status = "returned" /\ events = last.pre

\* C16: in an emitter whose scheduler is None no emit of listeners that on
\* and once calls registered fails in handing a result to the scheduler,
\* and no emit makes a scheduler call.
C16_NoScheduler ==
    schedule = "None" =>
        /\ (last.op = "emit" /\ \A j \in 1..Len(last.start) : last.start[j].rid # 0)
              => last.status # "failed" /\ last.sched = <<>>
        /\ \A p \in EmitFrames : stack[p].sched = <<>>

\* C17: no emit is left by the exception of a once-wrapper's own
\* remove_listener call, and one that raises by itself is an emit of
\* 'error' that found no listener.
C17_EmitFailures ==
    last.op = "emit" =>
        /\ last.status # "unregistering"
        /\ last.status = "raised" => last.event = "error" /\ last.start = <<>>

\* C18: with a scheduler injected, a coroutine that a listener returned to
\* its once-wrapper is handed to the scheduler, with self._loop, by the
\* emit that called the wrapper, as soon as the wrapper has come back.
WrapperCalls(fr) ==
    {j \in 1..Len(fr.results) : fr.invoked[j].c.tag = "g" /\ wr[fr.invoked[j].c.g].dropped}

OnceSchedOK(fr) ==
    \A j \in WrapperCalls(fr) :
        \E k \in 1..Len(fr.sched) : fr.sched[k].at = j /\ fr.sched[k].loop = loop

C18_OnceScheduled ==
    schedule # "None" =>
        /\ \A p \in EmitFrames : OnceSchedOK(stack[p])
        /\ last.op = "emit" => OnceSchedOK(last)

\* C19: the listener of one once call is called once at most, unless the
\* first emit that found its wrapper has ended in an exception.
C19_OnceAtMostOnce ==
    \A g \in DOMAIN wr : wr[g].cnt <= 1 \/ wr[g].first = "raised"

\* C20: an exception that comes out of the listener into its once-wrapper
\* leaves the wrapper and then the emit unchanged and with the registry as
\* it was, the wrapper in it as often as before; a wrapper takes itself out
\* of the registry only after its listener has returned; and an emit that
\* finds the wrapper later calls the listener again.
C20_Step ==
    /\ (exc # NoExc /\ Top.k = "g") =>
          /\ stack' = Pop
          /\ exc' = exc
          /\ events' = events
          /\ Len(stack) >= 2 /\ stack[Len(stack) - 1].k = "emit"
    /\ (exc # NoExc /\ Top.k = "emit") => events' = events /\ exc' = Escapes(Pop, exc)
    /\ (Top.k = "g" /\ events' # events) =>
          /\ exc = NoExc
          /\ events' = SetItem(events, Top.event, ListRemove(Lookup(events, Top.event), Top.c))

====
